---- MODULE Spec2Model ----
(***************************************************************************)
(* ImageDimensionsPicker (src/src/pages/Index.tsx): a focal point dragged  *)
(* inside a fixed container, and the left offsets of the mobile and tablet *)
(* crop windows derived from it on every render.                           *)
(*                                                                         *)
(* All quantities are pixels.  The component divides widths by two; the    *)
(* dimensions enumerated here are even and the deltas are integers, so     *)
(* every value the code computes is an integer and `\div 2` is exact.      *)
(***************************************************************************)
EXTENDS Integers, Sequences, FiniteSets

VARIABLES
    containerDimensions,  \* prop: [width, height]
    mobileWidth,          \* prop
    tabletWidth,          \* prop
    focalPoint,           \* useState<Position>: [x, y]
    containerRef,         \* useRef: "null" until React attaches the div
    lastDelta,            \* <<>> or <<delta>>: delta of the last drag that passed the guard
    mobileLeft,           \* value computed by the last render
    tabletLeft            \* value computed by the last render

vars == <<containerDimensions, mobileWidth, tabletWidth, focalPoint,
          containerRef, lastDelta, mobileLeft, tabletLeft>>

props == <<containerDimensions, mobileWidth, tabletWidth>>

(***************************************************************************)
(* Bounds of the enumerated inputs.                                        *)
(***************************************************************************)
MaxHalfWidth == 3     \* container widths 2, 4, .., 2*MaxHalfWidth
MaxHalfHeight == 1    \* container heights 2, .., 2*MaxHalfHeight
MaxExcess == 2        \* degenerate window widths exceed the container by up to 2*MaxExcess

(***************************************************************************)
(* Math.max / Math.min                                                     *)
(***************************************************************************)
Max(a, b) == IF a >= b THEN a ELSE b

Min(a, b) == IF a <= b THEN a ELSE b

(***************************************************************************)
(* Props.  DefaultProps are the defaults of the component, which are also  *)
(* the values Index passes.                                                *)
(***************************************************************************)
DefaultProps ==
    [containerDimensions |-> [width |-> 800, height |-> 400],
     mobileWidth |-> 200,
     tabletWidth |-> 400]

PropsUpTo(maxHalfWindow) ==
    { [containerDimensions |-> [width |-> 2 * q[1], height |-> 2 * q[2]],
       mobileWidth |-> 2 * q[3],
       tabletWidth |-> 2 * q[4]] :
         q \in (1..MaxHalfWidth) \X (1..MaxHalfHeight)
               \X (1..maxHalfWindow) \X (1..maxHalfWindow) }

\* §6 of the contract: all positive, both window widths <= containerWidth.
ValidProps ==
    {DefaultProps} \cup
    { p \in PropsUpTo(MaxHalfWidth) :
        /\ p.mobileWidth <= p.containerDimensions.width
        /\ p.tabletWidth <= p.containerDimensions.width }

\* Also the configurations the caller is supposed to prevent.
AnyProps ==
    {DefaultProps}
    \cup { [DefaultProps EXCEPT !.mobileWidth = 1000],
           [DefaultProps EXCEPT !.tabletWidth = 1000] }
    \cup PropsUpTo(MaxHalfWidth + MaxExcess)

IsDefault == props = <<DefaultProps.containerDimensions,
                       DefaultProps.mobileWidth, DefaultProps.tabletWidth>>

(***************************************************************************)
(* Drag deltas delivered by the DndContext.  For the small containers each *)
(* delta up to the container size in either direction, which overshoots    *)
(* both edges from every interior focal point.                             *)
(***************************************************************************)
ScenarioDeltaXs == {-1000, -350, -100, -50, 0, 50, 100, 350, 1000}

ScenarioDeltaYs == {-500, -100, 0, 100, 500}

DeltaXs ==
    IF IsDefault
    THEN ScenarioDeltaXs
    ELSE -containerDimensions.width .. containerDimensions.width

DeltaYs ==
    IF IsDefault
    THEN ScenarioDeltaYs
    ELSE -containerDimensions.height .. containerDimensions.height

Deltas == [x : DeltaXs, y : DeltaYs]

(***************************************************************************)
(* The component                                                           *)
(***************************************************************************)

\* getMobileContainerPosition with the two clamps applied in the other order
getMobileContainerPosition_MinOutside(focalX) ==
    LET halfMobileWidth == mobileWidth \div 2
        left == focalX - halfMobileWidth
    IN  Min(Max(0, left), containerDimensions.width - mobileWidth)

getMobileContainerPosition(focalX) ==
    LET halfMobileWidth == mobileWidth \div 2
        left == focalX - halfMobileWidth
    IN  Max(0, Min(left, containerDimensions.width - mobileWidth))


\* getTabletContainerPosition clamped to the container width, not width - tabletWidth
getTabletContainerPosition_FullWidth(focalX) ==
    LET halfTabletWidth == tabletWidth \div 2
        left == focalX - halfTabletWidth
    IN  Max(0, Min(left, containerDimensions.width))

getTabletContainerPosition(focalX) ==
    LET halfTabletWidth == tabletWidth \div 2
        left == focalX - halfTabletWidth
    IN  Max(0, Min(left, containerDimensions.width - tabletWidth))

initialFocalPoint ==
    [x |-> containerDimensions.width \div 2,
     y |-> containerDimensions.height \div 2]


\* newX without the upper clamp
newX_NoUpperClamp(fp, delta) == Max(0, fp.x + delta.x)

\* newX without any clamp
newX_Unclamped(fp, delta) == fp.x + delta.x

newX(fp, delta) == Max(0, Min(fp.x + delta.x, containerDimensions.width))


\* newY without the lower clamp
newY_NoLowerClamp(fp, delta) == Min(fp.y + delta.y, containerDimensions.height)

newY(fp, delta) == Max(0, Min(fp.y + delta.y, containerDimensions.height))

newTabletLeft(fp, delta) == getTabletContainerPosition(newX(fp, delta))


\* the left-boundary test dropped
isTabletAtLeftBoundary_Never(fp, delta) == FALSE

isTabletAtLeftBoundary(fp, delta) == newTabletLeft(fp, delta) = 0

isTabletAtRightBoundary(fp, delta) ==
    newTabletLeft(fp, delta) = containerDimensions.width - tabletWidth


\* finalX that never re-snaps to the centre of the mobile window
finalX_NoSnap(fp, delta) == newX(fp, delta)

\* finalX that snaps to the right edge of the mobile window (the "/ 2" lost)
finalX_FullWidth(fp, delta) ==
    IF ~isTabletAtLeftBoundary(fp, delta) /\ ~isTabletAtRightBoundary(fp, delta)
    THEN getMobileContainerPosition(newX(fp, delta)) + mobileWidth
    ELSE newX(fp, delta)

finalX(fp, delta) ==
    IF ~isTabletAtLeftBoundary(fp, delta) /\ ~isTabletAtRightBoundary(fp, delta)
    THEN getMobileContainerPosition(newX(fp, delta)) + mobileWidth \div 2
    ELSE newX(fp, delta)

\* the argument of setFocalPoint
nextFocalPoint(fp, delta) == [x |-> finalX(fp, delta), y |-> newY(fp, delta)]

TypeOK ==
    /\ containerRef \in {"null", "div"}
    /\ focalPoint.x \in Int /\ focalPoint.y \in Int
    /\ Len(lastDelta) <= 1

Init ==
    /\ \E p \in ValidProps :
          /\ containerDimensions = p.containerDimensions
          /\ mobileWidth = p.mobileWidth
          /\ tabletWidth = p.tabletWidth
    /\ focalPoint = initialFocalPoint
    /\ containerRef = "null"
    /\ lastDelta = <<>>
    /\ mobileLeft = getMobileContainerPosition(focalPoint.x)
    /\ tabletLeft = getTabletContainerPosition(focalPoint.x)

\* React commits the first render and attaches the container div to the ref.
Mount ==
    /\ containerRef = "null"
    /\ containerRef' = "div"
    /\ UNCHANGED <<containerDimensions, mobileWidth, tabletWidth, focalPoint,
                   lastDelta, mobileLeft, tabletLeft>>

\* handleDragEnd followed by the re-render that setFocalPoint triggers.
handleDragEnd(delta) ==
    IF containerRef = "null"
    THEN UNCHANGED vars
    ELSE /\ focalPoint' = nextFocalPoint(focalPoint, delta)
         /\ lastDelta' = <<delta>>
         /\ mobileLeft' = getMobileContainerPosition(finalX(focalPoint, delta))
         /\ tabletLeft' = getTabletContainerPosition(finalX(focalPoint, delta))
         /\ UNCHANGED <<containerDimensions, mobileWidth, tabletWidth, containerRef>>

DragEnd == \E delta \in Deltas : handleDragEnd(delta)

Next == Mount \/ DragEnd

Spec == Init /\ [][Next]_vars

(***************************************************************************)
(* The two window-left functions on arbitrary arguments: any props, the    *)
(* degenerate ones included, and any focal X, in or out of the container.  *)
(***************************************************************************)
FocalXInputs ==
    IF containerDimensions.width = DefaultProps.containerDimensions.width
    THEN {-1000, -350, -1, 0, 1, 50, 99, 100, 101, 199, 200, 201, 300, 400,
          500, 599, 600, 601, 699, 700, 701, 799, 800, 801, 1150, 2000}
    ELSE -(containerDimensions.width + MaxExcess)
           .. 2 * (containerDimensions.width + MaxExcess)

WindowInit ==
    /\ \E p \in AnyProps :
          /\ containerDimensions = p.containerDimensions
          /\ mobileWidth = p.mobileWidth
          /\ tabletWidth = p.tabletWidth
    /\ focalPoint = initialFocalPoint
    /\ containerRef = "div"
    /\ lastDelta = <<>>
    /\ mobileLeft = getMobileContainerPosition(focalPoint.x)
    /\ tabletLeft = getTabletContainerPosition(focalPoint.x)

\* the render body, lines 102-103, with focal X = focalX
Render(focalX) ==
    /\ focalPoint' = [focalPoint EXCEPT !.x = focalX]
    /\ mobileLeft' = getMobileContainerPosition(focalX)
    /\ tabletLeft' = getTabletContainerPosition(focalX)
    /\ UNCHANGED <<containerDimensions, mobileWidth, tabletWidth, containerRef, lastDelta>>

WindowNext == \E focalX \in FocalXInputs : Render(focalX)

WindowSpec == WindowInit /\ [][WindowNext]_vars

(***************************************************************************)
(* Properties                                                              *)
(***************************************************************************)
Dragged == lastDelta # <<>>

MobileBeforeTablet ==
    /\ 0 < mobileWidth
    /\ mobileWidth <= tabletWidth
    /\ tabletWidth <= containerDimensions.width

Clamp(v, lo, hi) == Max(lo, Min(v, hi))

\* C1: in every reachable state the focal point lies in the container:
\* 0 <= x <= containerWidth and 0 <= y <= containerHeight.
FocalPointInContainer ==
    /\ 0 <= focalPoint.x /\ focalPoint.x <= containerDimensions.width
    /\ 0 <= focalPoint.y /\ focalPoint.y <= containerDimensions.height

\* default props: a drag larger than the container, to the right and upwards,
\* has been clamped to the top right corner
FocalPointInContainer_Witness ==
    /\ IsDefault
    /\ lastDelta = << [x |-> 1000, y |-> -500] >>
    /\ focalPoint = [x |-> 800, y |-> 0]

\* C2: for every focal X, in the container or not, and every window width
\* with 0 < windowWidth <= containerWidth, the computed left offset satisfies
\* 0 <= left <= containerWidth - windowWidth.
WindowLeftInRange ==
    /\ (0 < mobileWidth /\ mobileWidth <= containerDimensions.width)
          => /\ 0 <= mobileLeft
             /\ mobileLeft <= containerDimensions.width - mobileWidth
    /\ (0 < tabletWidth /\ tabletWidth <= containerDimensions.width)
          => /\ 0 <= tabletLeft
             /\ tabletLeft <= containerDimensions.width - tabletWidth

\* a focal X right of the container, both windows clamped at the right edge
WindowLeftInRange_Witness ==
    /\ focalPoint.x > containerDimensions.width
    /\ mobileWidth < tabletWidth /\ tabletWidth < containerDimensions.width
    /\ mobileLeft = containerDimensions.width - mobileWidth
    /\ tabletLeft = containerDimensions.width - tabletWidth

\* C3: whenever the rendered tabletLeft is strictly interior, the committed
\* focal X is the centre of the rendered mobile window.
CenteringInvariant ==
    (0 < tabletLeft /\ tabletLeft < containerDimensions.width - tabletWidth)
       => focalPoint.x = mobileLeft + mobileWidth \div 2

\* after a drag: tablet interior while the mobile window is pinned at the left
\* edge, so the focal point sits where the snap put it
CenteringInvariant_Witness ==
    /\ Dragged
    /\ 0 < tabletLeft /\ tabletLeft < containerDimensions.width - tabletWidth
    /\ mobileLeft = 0
    /\ focalPoint.x = mobileWidth \div 2

\* C4: a drag with delta (0, 0) leaves the focal point, and with it
\* mobileLeft and tabletLeft, unchanged.
ZeroDeltaIdempotent ==
    [][ (containerRef = "div" /\ lastDelta' = << [x |-> 0, y |-> 0] >>)
          => /\ focalPoint' = focalPoint
             /\ mobileLeft' = mobileLeft
             /\ tabletLeft' = tabletLeft ]_vars

\* a zero drag has been applied to a focal point that earlier drags had moved
ZeroDeltaIdempotent_Witness ==
    /\ lastDelta = << [x |-> 0, y |-> 0] >>
    /\ focalPoint.x # containerDimensions.width \div 2
    /\ focalPoint.y # containerDimensions.height \div 2

\* C5 as stated: once a drag has left tabletLeft at 0, a further drag with
\* deltaX < 0 makes the focal X strictly smaller and keeps mobileLeft and
\* tabletLeft >= 0.
BoundarySnapStrictlyLeft ==
    [][ (containerRef = "div" /\ Dragged /\ tabletLeft = 0
            /\ lastDelta' # <<>> /\ lastDelta'[1].x < 0)
          => /\ focalPoint'.x < focalPoint.x
             /\ mobileLeft' >= 0
             /\ tabletLeft' >= 0 ]_vars

\* C5 amended: once a drag has left tabletLeft at 0, a further drag with
\* deltaX < 0 makes the focal X strictly smaller when it was above 0 and
\* leaves it at 0 when it was 0 (the new X is max(0, x + deltaX), never the
\* mobile centre); mobileLeft and tabletLeft stay >= 0.
BoundarySnapLeftOrEdge ==
    [][ (containerRef = "div" /\ Dragged /\ tabletLeft = 0
            /\ lastDelta' # <<>> /\ lastDelta'[1].x < 0)
          => /\ focalPoint.x > 0 => focalPoint'.x < focalPoint.x
             /\ focalPoint.x = 0 => focalPoint'.x = 0
             /\ focalPoint'.x = Max(0, focalPoint.x + lastDelta'[1].x)
             /\ mobileLeft' >= 0
             /\ tabletLeft' >= 0 ]_vars

\* default props: a drag of -50 has ended at x = 0, so it started at x <= 50,
\* where an earlier drag had pinned the tablet window at the left edge
BoundarySnapLeftOrEdge_Witness ==
    /\ IsDefault
    /\ Dragged /\ lastDelta[1].x = -50
    /\ focalPoint.x = 0
    /\ mobileLeft = 0 /\ tabletLeft = 0

\* C6: the drag update does not commute: from every focal point the mounted
\* component can hold there are two (horizontal) deltas whose two orders of
\* application commit different focal points.
DragNotCommutative ==
    containerRef = "div" =>
       \E dx1, dx2 \in DeltaXs :
          LET d1 == [x |-> dx1, y |-> 0]
              d2 == [x |-> dx2, y |-> 0]
          IN  nextFocalPoint(nextFocalPoint(focalPoint, d1), d2)
                # nextFocalPoint(nextFocalPoint(focalPoint, d2), d1)

\* default props after a drag: +1000 then -100 ends at 700, -100 then +1000 at 800
DragNotCommutative_Witness ==
    /\ IsDefault /\ Dragged /\ containerRef = "div"
    /\ focalPoint.x = 400
    /\ LET d1 == [x |-> 1000, y |-> 0]
           d2 == [x |-> -100, y |-> 0]
       IN  /\ nextFocalPoint(nextFocalPoint(focalPoint, d1), d2).x = 700
           /\ nextFocalPoint(nextFocalPoint(focalPoint, d2), d1).x = 800

\* C7: default props (800x400, mobile 200, tablet 400).  The initial state is
\* focal (400,200), mobileLeft 300, tabletLeft 200, and the first drag gives:
\* (0,0) -> focal (400,200), mobileLeft 300, tabletLeft 200;
\* (-350,0) -> focal X 50, tabletLeft 0, mobileLeft 0;
\* (+1000,0) -> focal X 800, tabletLeft 400, mobileLeft 600.
WorkedScenarios ==
    [][ (IsDefault /\ containerRef = "div" /\ lastDelta = <<>> /\ lastDelta' # <<>>)
          => /\ focalPoint = [x |-> 400, y |-> 200]
             /\ mobileLeft = 300 /\ tabletLeft = 200
             /\ lastDelta'[1] = [x |-> 0, y |-> 0]
                  => /\ focalPoint' = [x |-> 400, y |-> 200]
                     /\ mobileLeft' = 300 /\ tabletLeft' = 200
             /\ lastDelta'[1] = [x |-> -350, y |-> 0]
                  => /\ focalPoint' = [x |-> 50, y |-> 200]
                     /\ mobileLeft' = 0 /\ tabletLeft' = 0
             /\ lastDelta'[1] = [x |-> 1000, y |-> 0]
                  => /\ focalPoint' = [x |-> 800, y |-> 200]
                     /\ mobileLeft' = 600 /\ tabletLeft' = 400 ]_vars

\* the second scenario has run
WorkedScenarios_Witness ==
    /\ IsDefault
    /\ lastDelta = << [x |-> -350, y |-> 0] >>
    /\ focalPoint = [x |-> 50, y |-> 200]
    /\ mobileLeft = 0 /\ tabletLeft = 0

\* C8: a window wider than the container gets left = 0 for every focal X.
DegenerateLeftIsZero ==
    /\ mobileWidth > containerDimensions.width => mobileLeft = 0
    /\ tabletWidth > containerDimensions.width => tabletLeft = 0

\* both windows too wide, and a focal X for which focalX - width/2 is positive
DegenerateLeftIsZero_Witness ==
    /\ mobileWidth > containerDimensions.width
    /\ tabletWidth > containerDimensions.width
    /\ focalPoint.x - mobileWidth \div 2 > 0
    /\ focalPoint.x - tabletWidth \div 2 > 0
    /\ mobileLeft = 0 /\ tabletLeft = 0

\* C9: with 0 < mobileWidth <= tabletWidth <= containerWidth the mobile window
\* lies inside the tablet window and the focal X inside the mobile window.
NestingInvariant ==
    MobileBeforeTablet =>
       /\ tabletLeft <= mobileLeft
       /\ mobileLeft + mobileWidth <= tabletLeft + tabletWidth
       /\ mobileLeft <= focalPoint.x
       /\ focalPoint.x <= mobileLeft + mobileWidth

\* both windows pinned at the right edge after a drag, the focal point on the
\* container's right edge
NestingInvariant_Witness ==
    /\ Dragged
    /\ mobileWidth < tabletWidth /\ tabletWidth < containerDimensions.width
    /\ focalPoint.x = containerDimensions.width
    /\ mobileLeft = containerDimensions.width - mobileWidth
    /\ tabletLeft = containerDimensions.width - tabletWidth

\* C10: with 0 < mobileWidth <= tabletWidth <= containerWidth, for every
\* delta the committed focal point is the per-axis clamp of focal + delta,
\* and a tablet window at neither boundary means a mobile window at neither.
SnapIsIdentity ==
    MobileBeforeTablet =>
       \A d \in Deltas :
          /\ nextFocalPoint(focalPoint, d) =
                [x |-> Clamp(focalPoint.x + d.x, 0, containerDimensions.width),
                 y |-> Clamp(focalPoint.y + d.y, 0, containerDimensions.height)]
          /\ (~isTabletAtLeftBoundary(focalPoint, d) /\ ~isTabletAtRightBoundary(focalPoint, d))
                => /\ 0 < getMobileContainerPosition(newX(focalPoint, d))
                   /\ getMobileContainerPosition(newX(focalPoint, d))
                         < containerDimensions.width - mobileWidth

\* a drag that took the re-snap branch has been committed
SnapIsIdentity_Witness ==
    /\ Dragged
    /\ mobileWidth < tabletWidth
    /\ 0 < tabletLeft /\ tabletLeft < containerDimensions.width - tabletWidth
    /\ lastDelta[1].x # 0
====
